---- MODULE Spec2Model ----
(***************************************************************************)
(* Model of CFL_Platform.py, the Streamlit explorer of the Comprehensive   *)
(* Financial Lexicon.  The script is re-run from top to bottom on every    *)
(* user interaction: one action of the model is one full run of the script *)
(* (cached load, session initialisation, selection block, index build,     *)
(* keyword buttons).                                                       *)
(*                                                                         *)
(* Python strings are tuples of one-character strings, so that strip,      *)
(* split, replace, literal_eval, sorted and join are computed character by *)
(* character.  "" is <<>>.                                                 *)
(***************************************************************************)
EXTENDS Integers, Sequences, FiniteSets, TLC

\* ------------------------------------------------------------------ bounds
\* largest number of rows of the source file
MaxRows == 2
\* largest number of elements of a list literal in a similarity cell
MaxListLen == 2
MaxTokenLen == 3
MaxFormatCalls == 2

\* ----------------------------------------------------------- Python values
None == <<"None">>
EmptyDict == [c \in {} |-> <<>>]
NaN == [type |-> "nan"]
PyStr(s) == [type |-> "str", text |-> s]
PyInt(n) == [type |-> "int", val |-> n]
PyList(items) == [type |-> "list", items |-> items]
PySet(items) == [type |-> "set", items |-> items]
Raise(exc) == [type |-> "raise", exc |-> exc]

Range(f) == {f[i] : i \in DOMAIN f}

\* ---------------------------------------------------------------- str ops
Whitespace == {" ", "\t", "\n"}
Digits == {"5"}

RECURSIVE lstrip(_)
lstrip(s) == IF s # <<>> /\ Head(s) \in Whitespace THEN lstrip(Tail(s)) ELSE s

RECURSIVE rstrip(_)
rstrip(s) ==
    IF s # <<>> /\ s[Len(s)] \in Whitespace THEN rstrip(SubSeq(s, 1, Len(s) - 1)) ELSE s

\* str.strip()
strip(s) == rstrip(lstrip(s))

\* str.split(): the maximal runs of non-whitespace characters, in order
RECURSIVE SplitFrom(_, _, _)
SplitFrom(s, cur, acc) ==
    IF s = <<>> THEN (IF cur = <<>> THEN acc ELSE Append(acc, cur))
    ELSE IF Head(s) \in Whitespace
         THEN SplitFrom(Tail(s), <<>>, IF cur = <<>> THEN acc ELSE Append(acc, cur))
         ELSE SplitFrom(Tail(s), Append(cur, Head(s)), acc)

split(s) == SplitFrom(s, <<>>, <<>>)

\* str.replace(old, new) for one-character old and new
replace(s, old, new) == [i \in DOMAIN s |-> IF s[i] = old THEN new ELSE s[i]]

\* ------------------------------------------------------- ast.literal_eval
\* The literals of the model: a single-quoted string, a decimal integer, and
\* a list of single-quoted strings.  Every other text is rejected the way
\* Python rejects it, with SyntaxError or ValueError.
ParseFail == [ok |-> FALSE, val |-> <<>>, next |-> 0]

RECURSIVE ClosingQuote(_, _)
ClosingQuote(s, i) ==
    IF i > Len(s) THEN 0 ELSE IF s[i] = "'" THEN i ELSE ClosingQuote(s, i + 1)

\* a string literal starting at position i
ParseString(s, i) ==
    IF i > Len(s) \/ s[i] # "'" THEN ParseFail
    ELSE LET j == ClosingQuote(s, i + 1)
         IN  IF j = 0 THEN ParseFail
             ELSE [ok |-> TRUE, val |-> SubSeq(s, i + 1, j - 1), next |-> j + 1]

RECURSIVE SkipSpaces(_, _)
SkipSpaces(s, i) ==
    IF i <= Len(s) /\ s[i] \in Whitespace THEN SkipSpaces(s, i + 1) ELSE i

\* the elements of a list display after "[" or after a comma, up to "]"
RECURSIVE ParseElements(_, _, _)
ParseElements(s, i, acc) ==
    LET p == SkipSpaces(s, i)
    IN  IF p > Len(s) THEN ParseFail
        ELSE IF s[p] = "]" THEN [ok |-> TRUE, val |-> acc, next |-> p + 1]
        ELSE LET e == ParseString(s, p)
             IN  IF ~e.ok THEN ParseFail
                 ELSE LET q == SkipSpaces(s, e.next)
                      IN  IF q > Len(s) THEN ParseFail
                          ELSE IF s[q] = "," THEN ParseElements(s, q + 1, Append(acc, e.val))
                          ELSE IF s[q] = "]"
                               THEN [ok |-> TRUE, val |-> Append(acc, e.val), next |-> q + 1]
                          ELSE ParseFail

RECURSIVE DigitsEnd(_, _)
DigitsEnd(s, i) == IF i <= Len(s) /\ s[i] \in Digits THEN DigitsEnd(s, i + 1) ELSE i

DigitValue(ch) == CASE ch = "5" -> 5

RECURSIVE IntValue(_)
IntValue(s) == IF s = <<>> THEN 0 ELSE 10 * IntValue(SubSeq(s, 1, Len(s) - 1)) + DigitValue(s[Len(s)])

\* text made of names and operators only parses as an expression that is not
\* a literal (ValueError); anything else the grammar rejects is a SyntaxError
NameChars == {"a", "b", "_", "-"}

literal_eval(text) ==
    LET s == lstrip(text)
        fail == IF Range(rstrip(s)) \subseteq NameChars THEN Raise("ValueError")
                ELSE Raise("SyntaxError")
        AtEnd(i) == SkipSpaces(s, i) > Len(s)
    IN  IF s = <<>> THEN Raise("SyntaxError")
        ELSE IF s[1] = "["
             THEN LET r == ParseElements(s, 2, <<>>)
                  IN  IF r.ok /\ AtEnd(r.next) THEN PyList(r.val) ELSE fail
        ELSE IF s[1] = "'"
             THEN LET r == ParseString(s, 1)
                  IN  IF r.ok /\ AtEnd(r.next) THEN PyStr(r.val) ELSE fail
        ELSE IF s[1] \in Digits
             THEN LET j == DigitsEnd(s, 1)
                  IN  IF AtEnd(j) THEN PyInt(IntValue(SubSeq(s, 1, j - 1))) ELSE fail
        ELSE fail

\* ---------------------------------------------------------- Cell parsing
\* mutant: the except clause catches ValueError only
safe_list_conversion_value_error_only(value) ==
    IF value.type = "nan" THEN PyList(<<>>)
    ELSE IF value.type # "str" THEN Raise("AttributeError")
    ELSE IF strip(value.text) = <<>> THEN PyList(<<>>)
    ELSE LET r == literal_eval(value.text)
         IN  IF r.type = "raise" /\ r.exc = "ValueError" THEN PyList(<<>>) ELSE r

\* value.strip() on a value that is neither missing nor a string raises
\* AttributeError, which the except clause does not catch.
safe_list_conversion(value) ==
    IF value.type = "nan" THEN PyList(<<>>)
    ELSE IF value.type # "str" THEN Raise("AttributeError")
    ELSE IF strip(value.text) = <<>> THEN PyList(<<>>)
    ELSE LET r == literal_eval(value.text)
         IN  IF r.type = "raise" /\ r.exc \in {"ValueError", "SyntaxError"}
             THEN PyList(<<>>)
             ELSE r

\* set(v), the second .apply of the similarity columns
to_set(v) ==
    CASE v.type = "list" -> PySet(Range(v.items))
      [] v.type = "str" -> PySet({<<v.text[i]>> : i \in DOMAIN v.text})
      [] v.type = "int" -> Raise("TypeError")
      [] OTHER -> v

\* the lambda of the Keywords column; the order of list(set(...)) is not
\* specified and nothing reads it, so the list is kept as its element set
keywords_conversion(x) ==
    IF x.type = "str" THEN PyList(Range(split(x.text))) ELSE PyList({})

\* ------------------------------------------------------- Keyword Formatter
\* mutant: only the first underscore is replaced
format_keyword_first_underscore(keyword) ==
    IF keyword.type = "str"
    THEN PyStr([i \in DOMAIN keyword.text |->
                  IF keyword.text[i] = "_" /\ \A j \in 1..(i - 1) : keyword.text[j] # "_"
                  THEN " " ELSE keyword.text[i]])
    ELSE keyword

\* keyword.replace("_", " ") if isinstance(keyword, str) else keyword
format_keyword(keyword) ==
    IF keyword.type = "str" THEN PyStr(replace(keyword.text, "_", " ")) ELSE keyword

\* ------------------------------------------------------------ Dataset Loader
expected_columns ==
    << "DOI", "Category", "Subcategory", "Keywords",
       "top_5_similar", "top_10_similar", "top_15_similar",
       "Paper Title", "Author", "Journal", "Year", "Sample size (Firms)",
       "Sample size (Observations)", "Sample firms", "Begin sample", "End sample",
       "Data Source for Narrative", "Data Source for Narrative (Other)",
       "Linguistic Variable(s) - Category", "Linguistic Variable(s) - Category (Details)",
       "Linguistic Variable(s) - Other", "Linguistic Variable(s) - Use of Thesaurus",
       "Linguistic Variable(s) - Thesaurus Development Details",
       "Outcome variable(s) category", "Outcome variable(s) - Other", "Reference" >>

similar_columns == <<"top_5_similar", "top_10_similar", "top_15_similar">>

NoneDf == [type |-> "NoneType"]
DataFrame(columns, rows) == [type |-> "DataFrame", columns |-> columns, rows |-> rows]

\* what pd.read_csv hands back: the file cannot be fetched (it raises), or a
\* frame of typed cells (NaN, str, number)
Unreachable == [type |-> "unreachable"]
CsvFile(columns, rows) == [type |-> "csv", columns |-> columns, rows |-> rows]

\* the conversion load_data applies to one cell of column col
convert_cell(col, v) ==
    IF col = "Keywords" THEN keywords_conversion(v)
    ELSE IF col \in Range(similar_columns) THEN to_set(safe_list_conversion(v))
    ELSE v

\* mutant: every column of the file is kept
available_columns_unfiltered(columns) == columns

\* [col for col in expected_columns if col in df_all.columns]
available_columns(columns) ==
    SelectSeq(expected_columns, LAMBDA col : col \in Range(columns))

\* col.strip() on the column names of the model, of which one is padded
strip_column(col) == CASE col = " Keywords " -> "Keywords" [] OTHER -> col

\* lines 38-52: the kept columns, renamed, and their converted cells
load_frame(src, kept) ==
    LET rows == [i \in DOMAIN src.rows |->
                   [col \in {strip_column(c) : c \in Range(kept)} |->
                      convert_cell(col, src.rows[i][CHOOSE c \in Range(kept) :
                                                       strip_column(c) = col])]]
    IN  IF \E i \in DOMAIN rows : \E col \in DOMAIN rows[i] : rows[i][col].type = "raise"
        THEN NoneDf
        ELSE DataFrame([i \in DOMAIN kept |-> strip_column(kept[i])], rows)

\* load_data(filepath): any exception inside the try block gives None
load_data(src) ==
    IF src.type = "unreachable" THEN NoneDf
    ELSE load_frame(src, available_columns(src.columns))

\* ------------------------------------------------------- sorted, join, encode
Ord(ch) ==
    CASE ch = "\n" -> 10 [] ch = " " -> 32 [] ch = "'" -> 39 [] ch = "," -> 44
      [] ch = "-" -> 45 [] ch = "5" -> 53 [] ch = "A" -> 65 [] ch = "B" -> 66
      [] ch = "X" -> 88 [] ch = "Y" -> 89 [] ch = "[" -> 91 [] ch = "]" -> 93
      [] ch = "_" -> 95 [] ch = "a" -> 97 [] ch = "b" -> 98

\* s < t for Python strings (code point order, a proper prefix is smaller)
StrLess(s, t) ==
    \E i \in 1..(Len(t)) :
        /\ i <= Len(s) + 1
        /\ \A j \in 1..(i - 1) : s[j] = t[j]
        /\ (i = Len(s) + 1 \/ Ord(s[i]) < Ord(t[i]))

\* mutant: the keywords are put in descending order
RECURSIVE sorted_descending(_)
sorted_descending(S) ==
    IF S = {} THEN <<>>
    ELSE LET m == CHOOSE x \in S : \A y \in S \ {x} : StrLess(y, x)
         IN  <<m>> \o sorted_descending(S \ {m})

RECURSIVE sorted(_)
sorted(S) ==
    IF S = {} THEN <<>>
    ELSE LET m == CHOOSE x \in S : \A y \in S \ {x} : StrLess(x, y)
         IN  <<m>> \o sorted(S \ {m})

RECURSIVE join(_, _)
join(sep, strs) ==
    IF strs = <<>> THEN <<>>
    ELSE IF Len(strs) = 1 THEN strs[1]
    ELSE strs[1] \o sep \o join(sep, Tail(strs))

\* str.encode("utf-8") on the characters of the model, all of them ASCII
encode(s) == [i \in DOMAIN s |-> Ord(s[i])]

\* -------------------------------------------------- Filter & Index Builder
\* df[df[col] == value]: a missing cell equals nothing
CellIs(row, col, value) ==
    col \in DOMAIN row /\ row[col].type = "str" /\ row[col].text = value

\* [""] + sorted(column.dropna().unique())
Options(rows, col) ==
    <<<<>>>> \o sorted({rows[i][col].text : i \in {j \in DOMAIN rows : rows[j][col].type = "str"}})

\* mutant: the filter tests the category only
filtered_data_by_category(df, category, subcategory) ==
    SelectSeq(df.rows, LAMBDA row : CellIs(row, "Category", category))

filtered_data(df, category, subcategory) ==
    SelectSeq(df.rows, LAMBDA row : CellIs(row, "Category", category)
                                     /\ CellIs(row, "Subcategory", subcategory))

EmptyIndex == [original_keywords |-> {}, ai_keywords |-> {}, keyword_metadata |-> EmptyDict]

\* mutant: the first row that holds a keyword keeps its entry
IndexRow_first_writer(row, acc) ==
    LET kws == IF "Keywords" \in DOMAIN row /\ row["Keywords"].type = "list"
               THEN {format_keyword(PyStr(kw)).text : kw \in row["Keywords"].items} ELSE {}
        ai == UNION {row[col].items :
                       col \in {c \in Range(similar_columns) :
                                  c \in DOMAIN row /\ row[c].type = "set"}}
    IN  [original_keywords |-> acc.original_keywords \cup kws,
         ai_keywords |-> acc.ai_keywords \cup ai,
         keyword_metadata |->
            [k \in DOMAIN acc.keyword_metadata \cup kws |->
                IF k \in DOMAIN acc.keyword_metadata THEN acc.keyword_metadata[k] ELSE row]]

\* the body of "for _, row in filtered_data.iterrows()"
IndexRow(row, acc) ==
    LET kws == IF "Keywords" \in DOMAIN row /\ row["Keywords"].type = "list"
               THEN {format_keyword(PyStr(kw)).text : kw \in row["Keywords"].items} ELSE {}
        ai == UNION {row[col].items :
                       col \in {c \in Range(similar_columns) :
                                  c \in DOMAIN row /\ row[c].type = "set"}}
    IN  [original_keywords |-> acc.original_keywords \cup kws,
         ai_keywords |-> acc.ai_keywords \cup ai,
         keyword_metadata |->
            [k \in DOMAIN acc.keyword_metadata \cup kws |->
                IF k \in kws THEN row ELSE acc.keyword_metadata[k]]]

RECURSIVE IndexRows(_, _)
IndexRows(rows, acc) ==
    IF rows = <<>> THEN acc ELSE IndexRows(Tail(rows), IndexRow(Head(rows), acc))

BuildIndex(df, category, subcategory) ==
    IndexRows(filtered_data(df, category, subcategory), EmptyIndex)

original_csv(index) == encode(join(<<"\n">>, sorted(index.original_keywords)))
all_csv(index) ==
    encode(join(<<"\n">>, sorted(index.original_keywords \cup index.ai_keywords)))

\* ------------------------------------------------------------------ inputs
Categories == {<<"A">>, <<"B">>}
Subcategories == {<<"X">>, <<"Y">>}

\* elements of the list literals: 'a_b', 'b' and the empty string ''
SimilarTokens == { <<"a", "_", "b">>, <<"b">>, <<>> }

TokenLists == UNION {[1..n -> SimilarTokens] : n \in 0..MaxListLen}

Separators == { <<",">>, <<",", " ">> }

\* the text of a list literal: "['a_b', 'b']"
ListLiteral(L, sep) ==
    <<"[">> \o join(sep, [i \in DOMAIN L |-> <<"'">> \o L[i] \o <<"'">>]) \o <<"]">>

ListCells == {PyStr(ListLiteral(L, sep)) : L \in TokenLists, sep \in Separators}

BlankCells == { PyStr(<<" ">>), PyStr(<<" ", " ">>) }

\* "a-b" (an expression, not a literal) and "['a'," (cut short)
MalformedCells == { PyStr(<<"a", "-", "b">>), PyStr(<<"[", "'", "a", "'", ",">>) }

\* a number as text (in a column of strings) and as a number (numeric column)
NumberCells == { PyStr(<<"5">>), PyInt(5) }

SimilarCells == {NaN} \cup BlankCells \cup ListCells \cup MalformedCells \cup NumberCells

SourceColumns ==
    <<"Category", "Subcategory", "Keywords",
      "top_5_similar", "top_10_similar", "top_15_similar">>

RawRow(c, s, k, t5, t10, t15) ==
    [col \in Range(SourceColumns) |->
        CASE col = "Category" -> PyStr(c)
          [] col = "Subcategory" -> PyStr(s)
          [] col = "Keywords" -> k
          [] col = "top_5_similar" -> t5
          [] col = "top_10_similar" -> t10
          [] col = "top_15_similar" -> t15]

\* Keywords and similarity cells of the rows of the browsing sessions: a row
\* without keywords, and two rows that share the keyword a_b and spread
\* their similar terms over the three columns
BrowseCells ==
    { <<NaN, NaN, NaN, NaN>>,
      <<PyStr(<<"a", "_", "b">>),
        PyStr(ListLiteral(<< <<"a", "_", "b">> >>, <<",">>)), NaN,
        PyStr(ListLiteral(<< <<"b">>, <<"b">> >>, <<",">>))>>,
      <<PyStr(<<"a", "_", "b", " ", "b">>),
        NaN, PyStr(ListLiteral(<< <<"b">> >>, <<",">>)), NaN>> }

BrowseRows ==
    { RawRow(c, s, t[1], t[2], t[3], t[4]) :
        c \in Categories, s \in Subcategories, t \in BrowseCells }

\* one-row files that put every kind of similarity cell through the loader
CellRows ==
    { RawRow(<<"A">>, <<"X">>, PyStr(<<"a", "_", "b">>), t5, t10, NaN) :
        t5 \in SimilarCells,
        t10 \in {NaN, PyStr(ListLiteral(<< <<"b">>, <<"b">> >>, <<",", " ">>))} }

\* the columns a file may hold, in the order the files hold them: six of
\* the expected columns, a padded name and a name that is not expected
FileColumns ==
    <<"top_5_similar", "Extra", " Keywords ", "Keywords", "Subcategory", "Category", "DOI">>

ColumnRow ==
    [col \in Range(FileColumns) |->
        CASE col = "Category" -> PyStr(<<"A">>)
          [] col = "Subcategory" -> PyStr(<<"X">>)
          [] col = "Keywords" -> PyStr(<<"a", "_", "b">>)
          [] col = "top_5_similar" -> PyStr(ListLiteral(<< <<"b">> >>, <<",">>))
          [] col = "DOI" -> PyStr(<<"5">>)
          [] OTHER -> PyStr(<<"b">>)]

\* one-row files with every choice of columns
ColumnFiles ==
    { CsvFile(SelectSeq(FileColumns, LAMBDA col : col \in S),
              << [col \in S |-> ColumnRow[col]] >>) : S \in SUBSET Range(FileColumns) \ {{}} }

\* the arguments of format_keyword: every string of up to MaxTokenLen
\* characters over a letter, the underscore and the space, and three values
\* that are no strings
FormatAlphabet == {"a", "_", " "}

FormatInputs ==
    {PyStr(t) : t \in UNION {[1..n -> FormatAlphabet] : n \in 0..MaxTokenLen}}
    \cup {NaN, PyInt(5), PyList({<<"a", "_", "a">>})}

Sources ==
    {Unreachable}
    \cup {CsvFile(SourceColumns, rows) : rows \in UNION {[1..n -> BrowseRows] : n \in 1..MaxRows}}
    \cup {CsvFile(SourceColumns, <<row>>) : row \in CellRows}
    \cup ColumnFiles

\* ------------------------------------------------------------------- state
VARIABLES
    source,           \* what pd.read_csv(DATA_PATH) gives
    cache,            \* st.cache_data memo of load_data: <<>> or <<df>>
    session_state,    \* the four st.session_state fields
    category_box,     \* widget state of the category selectbox
    subcategory_box,  \* widget state of the subcategory selectbox
    buttons,          \* keyword buttons rendered by the last run
    stale_buttons,    \* keyword buttons on screen before the last run
    view,             \* index and exports built by the last run
    event,            \* the interaction that triggered the last run
    previous_state,   \* st.session_state when the last run started
    raised,           \* the last run ended in an uncaught exception
    format_calls      \* an argument of format_keyword and the results of repeated calls

vars == <<source, cache, session_state, category_box, subcategory_box,
          buttons, stale_buttons, view, event, previous_state, raised, format_calls>>

InitialSession ==
    [selected_metadata |-> EmptyDict, clicked_keyword |-> None,
     selected_category |-> None, selected_subcategory |-> None]

NoBox == [rendered |-> FALSE, options |-> <<>>, value |-> <<>>]
Box(options, value) == [rendered |-> TRUE, options |-> options, value |-> value]

NoView ==
    [built |-> FALSE, index |-> EmptyIndex, original_csv |-> <<>>, all_csv |-> <<>>,
     handled |-> None]

\* st.selectbox without a key: the widget is identified by its label and
\* options, keeps the user's choice while that identity is rendered, and
\* starts at index 0 otherwise
selectbox(box, options) ==
    IF box.rendered /\ box.options = options THEN box.value ELSE options[1]

\* mutant: the selection block is entered without a table
table_loaded_always(df) == TRUE

\* "if df is not None"
table_loaded(df) == df.type # "NoneType"

\* mutant: a change of category leaves the metadata of the last click in place
reset_on_category_keeping_metadata(ss, selected_category) ==
    IF selected_category # ss.selected_category
    THEN [ss EXCEPT !.selected_category = selected_category,
                    !.selected_subcategory = None, !.clicked_keyword = None]
    ELSE ss

\* mutant: the reset is not guarded by a change of category
reset_on_category_always(ss, selected_category) ==
    [selected_category |-> selected_category, selected_subcategory |-> None,
     clicked_keyword |-> None, selected_metadata |-> EmptyDict]

\* "Reset subcategory selection if category changes"
reset_on_category(ss, selected_category) ==
    IF selected_category # ss.selected_category
    THEN [selected_category |-> selected_category, selected_subcategory |-> None,
          clicked_keyword |-> None, selected_metadata |-> EmptyDict]
    ELSE ss

\* mutant: a change of subcategory leaves the clicked keyword in place
reset_on_subcategory_keeping_keyword(ss, selected_subcategory) ==
    [ss EXCEPT !.selected_subcategory = selected_subcategory]

\* "Reset keywords if subcategory changes"
reset_on_subcategory(ss, selected_subcategory) ==
    IF selected_subcategory # ss.selected_subcategory
    THEN [ss EXCEPT !.selected_subcategory = selected_subcategory,
                    !.clicked_keyword = None, !.selected_metadata = EmptyDict]
    ELSE ss

\* mutant: the similar terms get buttons too
rendered_buttons_with_similar(index) == index.original_keywords \cup index.ai_keywords

\* the keys of the st.button calls of one run
rendered_buttons(index) == index.original_keywords

\* mutant: the click stores the keyword and leaves the metadata alone
keyword_buttons_without_metadata(ss, index, pressed) ==
    IF pressed \in rendered_buttons(index)
    THEN [session_state |-> [ss EXCEPT !.clicked_keyword = pressed],
          handled |-> pressed, raised |-> FALSE]
    ELSE [session_state |-> ss, handled |-> None, raised |-> FALSE]

\* mutant: the pressed key is looked up whether or not its button is rendered
keyword_buttons_unchecked(ss, index, pressed) ==
    IF pressed # None
    THEN IF pressed \in DOMAIN index.keyword_metadata
         THEN [session_state |-> [ss EXCEPT !.clicked_keyword = pressed,
                                            !.selected_metadata = index.keyword_metadata[pressed]],
               handled |-> pressed, raised |-> FALSE]
         ELSE [session_state |-> [ss EXCEPT !.clicked_keyword = pressed],
               handled |-> pressed, raised |-> TRUE]
    ELSE [session_state |-> ss, handled |-> None, raised |-> FALSE]

\* mutant: the click also drops the stored subcategory
keyword_buttons_dropping_subcategory(ss, index, pressed) ==
    IF pressed \in rendered_buttons(index)
    THEN IF pressed \in DOMAIN index.keyword_metadata
         THEN [session_state |-> [ss EXCEPT !.clicked_keyword = pressed,
                                            !.selected_metadata = index.keyword_metadata[pressed],
                                            !.selected_subcategory = None],
               handled |-> pressed, raised |-> FALSE]
         ELSE [session_state |-> [ss EXCEPT !.clicked_keyword = pressed],
               handled |-> pressed, raised |-> TRUE]
    ELSE [session_state |-> ss, handled |-> None, raised |-> FALSE]

\* the button loop: st.button is true for the pressed key, if it is rendered;
\* keyword_metadata[keyword] raises KeyError on a key it does not hold
keyword_buttons(ss, index, pressed) ==
    IF pressed \in rendered_buttons(index)
    THEN IF pressed \in DOMAIN index.keyword_metadata
         THEN [session_state |-> [ss EXCEPT !.clicked_keyword = pressed,
                                            !.selected_metadata = index.keyword_metadata[pressed]],
               handled |-> pressed, raised |-> FALSE]
         ELSE [session_state |-> [ss EXCEPT !.clicked_keyword = pressed],
               handled |-> pressed, raised |-> TRUE]
    ELSE [session_state |-> ss, handled |-> None, raised |-> FALSE]

Outcome(ss, cbox, sbox, btns, v, exc) ==
    [session_state |-> ss, category_box |-> cbox, subcategory_box |-> sbox,
     buttons |-> btns, view |-> v, raised |-> exc]

\* lines 106-138, with both selections made: index, exports, buttons
KeywordBlock(ss, cbox, sbox, index, pressed) ==
    LET b == keyword_buttons(ss, index, pressed)
    IN  [session_state |-> b.session_state, category_box |-> cbox, subcategory_box |-> sbox,
         buttons |-> rendered_buttons(index),
         view |-> [built |-> TRUE, index |-> index,
                   original_csv |-> original_csv(index), all_csv |-> all_csv(index),
                   handled |-> b.handled],
         raised |-> b.raised]

\* lines 100-106, with the value of the subcategory selectbox
SubcategoryChosen(df, ss, cbox, selected_category, sub_options, selected_subcategory, pressed) ==
    IF selected_subcategory = <<>>
    THEN Outcome(reset_on_subcategory(ss, selected_subcategory), cbox,
                 Box(sub_options, selected_subcategory), {}, NoView, FALSE)
    ELSE KeywordBlock(reset_on_subcategory(ss, selected_subcategory), cbox,
                      Box(sub_options, selected_subcategory),
                      BuildIndex(df, selected_category, selected_subcategory), pressed)

\* lines 97-98, with the options of the subcategory selectbox
SubcategoryBlock(df, ss, cbox, sbox, selected_category, sub_options, pressed) ==
    SubcategoryChosen(df, ss, cbox, selected_category, sub_options,
                      selectbox(sbox, sub_options), pressed)

\* lines 88-98, with the value of the category selectbox; df["Subcategory"]
\* raises KeyError on a table without that column
CategoryChosen(df, ss, sbox, cat_options, selected_category, pressed) ==
    IF selected_category = <<>>
    THEN Outcome(reset_on_category(ss, selected_category),
                 Box(cat_options, selected_category), NoBox, {}, NoView, FALSE)
    ELSE IF "Subcategory" \notin Range(df.columns)
    THEN Outcome(reset_on_category(ss, selected_category),
                 Box(cat_options, selected_category), NoBox, {}, NoView, TRUE)
    ELSE SubcategoryBlock(df, reset_on_category(ss, selected_category),
                          Box(cat_options, selected_category), sbox, selected_category,
                          Options(SelectSeq(df.rows,
                                            LAMBDA row : CellIs(row, "Category", selected_category)),
                                  "Subcategory"),
                          pressed)

\* line 86, with the options of the category selectbox
CategoryBlock(df, ss, cbox, sbox, cat_options, pressed) ==
    CategoryChosen(df, ss, sbox, cat_options, selectbox(cbox, cat_options), pressed)

\* one run of the script below the load, with the widget states the browser
\* sent and the key of the pressed button (None if none); subscripting None
\* raises TypeError, and df["Category"] raises KeyError on a table without
\* that column
Script(df, ss, cbox, sbox, pressed) ==
    IF ~table_loaded(df) THEN Outcome(ss, NoBox, NoBox, {}, NoView, FALSE)
    ELSE IF df.type # "DataFrame" THEN Outcome(ss, NoBox, NoBox, {}, NoView, TRUE)
    ELSE IF "Category" \notin Range(df.columns) THEN Outcome(ss, NoBox, NoBox, {}, NoView, TRUE)
    ELSE CategoryBlock(df, ss, cbox, sbox, Options(df.rows, "Category"), pressed)

\* st.cache_data: load_data runs on the first call only
cached_load == IF cache = <<>> THEN load_data(source) ELSE cache[1]

Finish(df, r, kind, arg) ==
    /\ cache' = <<df>>
    /\ session_state' = r.session_state
    /\ category_box' = r.category_box
    /\ subcategory_box' = r.subcategory_box
    /\ buttons' = r.buttons
    /\ stale_buttons' = buttons
    /\ view' = r.view
    /\ raised' = r.raised
    /\ event' = [kind |-> kind, arg |-> arg]
    /\ previous_state' = session_state
    /\ UNCHANGED <<source, format_calls>>

RunWith(df, kind, arg, cbox, sbox, pressed) ==
    Finish(df, Script(df, session_state, cbox, sbox, pressed), kind, arg)

\* the whole script: cached load, then the run
Run(kind, arg, cbox, sbox, pressed) ==
    RunWith(cached_load, kind, arg, cbox, sbox, pressed)

NoCalls == [input |-> NaN, outputs |-> <<>>]

Init ==
    /\ source \in Sources
    /\ cache = <<>>
    /\ session_state = InitialSession
    /\ category_box = NoBox
    /\ subcategory_box = NoBox
    /\ buttons = {}
    /\ stale_buttons = {}
    /\ view = NoView
    /\ event = [kind |-> "none", arg |-> <<>>]
    /\ previous_state = InitialSession
    /\ raised = FALSE
    /\ format_calls = NoCalls

\* the first run of the session: load_data is executed
OpenPage ==
    /\ cache = <<>>
    /\ Run("open", <<>>, NoBox, NoBox, None)

\* the user picks another entry of the category selectbox
SelectCategory ==
    /\ category_box.rendered
    /\ \E c \in Range(category_box.options) \ {category_box.value} :
          Run("category", c, [category_box EXCEPT !.value = c], subcategory_box, None)

\* the user picks another entry of the subcategory selectbox
SelectSubcategory ==
    /\ subcategory_box.rendered
    /\ \E s \in Range(subcategory_box.options) \ {subcategory_box.value} :
          Run("subcategory", s, category_box, [subcategory_box EXCEPT !.value = s], None)

\* the user presses a keyword button of the current page
ClickKeyword ==
    \E k \in buttons : Run("click", k, category_box, subcategory_box, k)

\* the press of a button of the page before the last run arrives after it
StaleClick ==
    \E k \in stale_buttons \ buttons :
        Run("stale_click", k, category_box, subcategory_box, k)

\* a download button is pressed: a run with nothing changed
Download ==
    /\ view.built
    /\ Run("download", <<>>, category_box, subcategory_box, None)

\* the user asks for a rerun
Rerun ==
    /\ cache # <<>>
    /\ Run("rerun", <<>>, category_box, subcategory_box, None)

Next ==
    \/ OpenPage
    \/ SelectCategory
    \/ SelectSubcategory
    \/ ClickKeyword
    \/ StaleClick
    \/ Download
    \/ Rerun

Spec == Init /\ [][Next]_vars

\* ---------------------------------------------- format_keyword on its own
InitFormat ==
    /\ source = Unreachable
    /\ cache = <<>>
    /\ session_state = InitialSession
    /\ category_box = NoBox
    /\ subcategory_box = NoBox
    /\ buttons = {}
    /\ stale_buttons = {}
    /\ view = NoView
    /\ event = [kind |-> "none", arg |-> <<>>]
    /\ previous_state = InitialSession
    /\ raised = FALSE
    /\ format_calls \in {[input |-> v, outputs |-> <<>>] : v \in FormatInputs}

\* format_keyword is called on the argument, then on its own result
ApplyFormat ==
    /\ Len(format_calls.outputs) < MaxFormatCalls
    /\ format_calls' =
          [format_calls EXCEPT !.outputs =
              Append(@, format_keyword(IF @ = <<>> THEN format_calls.input ELSE @[Len(@)]))]
    /\ UNCHANGED <<source, cache, session_state, category_box, subcategory_box,
                   buttons, stale_buttons, view, event, previous_state, raised>>

NextFormat == ApplyFormat

SpecFormat == InitFormat /\ [][NextFormat]_vars

\* ================================================================= claims
Loaded == cache # <<>> /\ cache[1].type = "DataFrame"
LoadFailed == cache # <<>> /\ cache[1].type = "NoneType"
Unset == {None, <<>>}
ClickKinds == {"click", "stale_click"}

\* C1 (as stated): a run in which the chosen category is another category
\* than the stored one ends with the stored subcategory cleared, no clicked
\* keyword and empty metadata, whatever the subcategory lists of the two
\* categories are.
C1_CategoryChangeClearsSubcategory ==
    [][ ( /\ session_state.selected_category \notin Unset
          /\ category_box'.rendered
          /\ category_box'.value # <<>>
          /\ category_box'.value # session_state.selected_category )
        => ( /\ session_state'.selected_subcategory \in Unset
             /\ session_state'.clicked_keyword = None
             /\ session_state'.selected_metadata = EmptyDict ) ]_vars

\* C2: with a category selected and chosen again, a run in which the chosen
\* subcategory differs from the stored one (the empty entry included) ends
\* with no clicked keyword, empty metadata, the chosen subcategory stored and
\* the stored category unchanged.
C2_SubcategoryChangeResetsKeyword ==
    [][ ( /\ session_state.selected_category \notin Unset
          /\ category_box'.rendered
          /\ category_box'.value = session_state.selected_category
          /\ subcategory_box'.rendered
          /\ subcategory_box'.value # session_state.selected_subcategory )
        => ( /\ session_state'.clicked_keyword = None
             /\ session_state'.selected_metadata = EmptyDict
             /\ session_state'.selected_subcategory = subcategory_box'.value
             /\ session_state'.selected_category = session_state.selected_category ) ]_vars

\* a subcategory change (also back to the empty entry) dropped a clicked keyword
C2_Witness ==
    /\ event.kind = "subcategory"
    /\ previous_state.clicked_keyword # None
    /\ previous_state.selected_metadata # EmptyDict
    /\ session_state.clicked_keyword = None
    /\ session_state.selected_subcategory = <<>>

\* C3: the click handler runs only with a non-empty category and a non-empty
\* subcategory stored, and after it has handled keyword k the session holds
\* clicked_keyword = k and selected_metadata = keyword_metadata[k] of the
\* index of the stored (category, subcategory).
C3_ClickBindsMetadata ==
    view.handled # None =>
        /\ Loaded
        /\ session_state.selected_category \notin Unset
        /\ session_state.selected_subcategory \notin Unset
        /\ session_state.clicked_keyword = view.handled
        /\ session_state.selected_metadata =
              BuildIndex(cache[1], session_state.selected_category,
                         session_state.selected_subcategory).keyword_metadata[view.handled]

\* a click on a keyword with an underscore in the source was handled
C3_Witness ==
    /\ event.kind = "click"
    /\ view.handled = <<"a", " ", "b">>
    /\ session_state.clicked_keyword = <<"a", " ", "b">>
    /\ session_state.selected_metadata # EmptyDict

\* C4: a run that chooses the stored category again, the stored subcategory
\* again (when its selectbox is rendered) and presses no button or the button
\* of the keyword already clicked leaves the four session fields as they were.
C4_ReselectIsNoOp ==
    [][ ( /\ Loaded
          /\ category_box'.rendered
          /\ category_box'.value = session_state.selected_category
          /\ (subcategory_box'.rendered =>
                 subcategory_box'.value = session_state.selected_subcategory)
          /\ (event'.kind \in ClickKinds => event'.arg = session_state.clicked_keyword) )
        => session_state' = session_state ]_vars

\* the keyword already clicked was clicked again
C4_Witness ==
    /\ event.kind = "click"
    /\ previous_state.clicked_keyword = event.arg
    /\ previous_state.selected_metadata # EmptyDict
    /\ session_state = previous_state

\* C5: a press of a key that the index of the current view does not hold
\* raises nothing and is ignored: clicked_keyword stays, and selected_metadata
\* stays or is the empty placeholder.
C5_StaleClickIgnored ==
    [][ ( /\ event'.kind \in ClickKinds
          /\ event'.arg \notin DOMAIN view'.index.keyword_metadata )
        => ( /\ ~raised'
             /\ view'.handled = None
             /\ session_state'.clicked_keyword = session_state.clicked_keyword
             /\ session_state'.selected_metadata \in
                   {session_state.selected_metadata, EmptyDict} ) ]_vars

\* a stale press arrived while another view with keywords was on screen
C5_Witness ==
    /\ event.kind = "stale_click"
    /\ view.built
    /\ view.index.keyword_metadata # EmptyDict
    /\ event.arg \notin DOMAIN view.index.keyword_metadata
    /\ ~raised

\* the rows of the loaded table with the given category and subcategory
HasPair(row) == {"Category", "Subcategory"} \subseteq DOMAIN row
SimilarOf(row) == Range(similar_columns) \cap DOMAIN row

MatchingRows(c, s) ==
    {i \in DOMAIN cache[1].rows :
        /\ HasPair(cache[1].rows[i])
        /\ cache[1].rows[i]["Category"] = PyStr(c)
        /\ cache[1].rows[i]["Subcategory"] = PyStr(s)}

\* the formatted keywords of row i of the loaded table
FormattedKeywords(i) ==
    IF "Keywords" \in DOMAIN cache[1].rows[i]
    THEN {format_keyword(PyStr(t)).text : t \in cache[1].rows[i]["Keywords"].items}
    ELSE {}

\* the formatted similar terms of row i of the loaded table
FormattedSimilar(i) ==
    UNION {{format_keyword(PyStr(t)).text : t \in cache[1].rows[i][col].items} :
             col \in SimilarOf(cache[1].rows[i])}

\* C6: for every (category, subcategory) pair of the loaded table, and for
\* the view on screen, original_keywords is exactly the set of the formatted
\* Keywords tokens of the rows whose Category and Subcategory both match.
C6_OriginalKeywordsExact ==
    Loaded =>
        /\ \A i \in {j \in DOMAIN cache[1].rows : HasPair(cache[1].rows[j])} :
              BuildIndex(cache[1], cache[1].rows[i]["Category"].text,
                         cache[1].rows[i]["Subcategory"].text).original_keywords
              = UNION {FormattedKeywords(j) :
                         j \in MatchingRows(cache[1].rows[i]["Category"].text,
                                            cache[1].rows[i]["Subcategory"].text)}
        /\ view.built =>
              view.index.original_keywords
              = UNION {FormattedKeywords(j) :
                         j \in MatchingRows(session_state.selected_category,
                                            session_state.selected_subcategory)}

\* a view with keywords is on screen while a row of the same category and
\* another subcategory holds a keyword that the view does not show
C6_Witness ==
    /\ Loaded
    /\ view.built
    /\ view.index.original_keywords # {}
    /\ \E j \in DOMAIN cache[1].rows :
          /\ HasPair(cache[1].rows[j])
          /\ cache[1].rows[j]["Category"].text = session_state.selected_category
          /\ cache[1].rows[j]["Subcategory"].text # session_state.selected_subcategory
          /\ FormattedKeywords(j) \ view.index.original_keywords # {}

\* C7 (as stated): the similar terms of a view are the formatted tokens of
\* the three similarity columns of the matching rows, and no keyword of the
\* all-keywords export holds an underscore.
C7_SimilarKeywordsFormatted ==
    (Loaded /\ view.built) =>
        /\ view.index.ai_keywords
           = UNION {FormattedSimilar(j) :
                      j \in MatchingRows(session_state.selected_category,
                                         session_state.selected_subcategory)}
        /\ Ord("_") \notin Range(view.all_csv)

\* C8 (as stated): whatever one similarity cell holds, load_data returns a
\* table, with a collection in every similarity cell.
C8_LoadSurvivesAnyCell ==
    (cache # <<>> /\ source.type = "csv") =>
        /\ cache[1].type = "DataFrame"
        /\ \A i \in DOMAIN cache[1].rows : \A col \in SimilarOf(cache[1].rows[i]) :
              cache[1].rows[i][col].type = "set"

\* the similarity cells that are missing, blank, malformed or a list literal
ParsableCells == {NaN} \cup BlankCells \cup MalformedCells \cup ListCells

\* C9: a file whose similarity cells are missing, blank, malformed or list
\* literals loads; a list literal becomes the set of its elements and the
\* other three become the empty set.
C9_ParsedCells ==
    ( /\ cache # <<>>
      /\ source.type = "csv"
      /\ \A i \in DOMAIN source.rows : \A col \in SimilarOf(source.rows[i]) :
            source.rows[i][col] \in ParsableCells )
    => /\ cache[1].type = "DataFrame"
       /\ \A i \in DOMAIN source.rows : \A col \in SimilarOf(source.rows[i]) :
             /\ source.rows[i][col] \in {NaN} \cup BlankCells \cup MalformedCells
                   => cache[1].rows[i][col] = PySet({})
             /\ \A L \in TokenLists : \A sep \in Separators :
                   source.rows[i][col] = PyStr(ListLiteral(L, sep))
                      => cache[1].rows[i][col] = PySet(Range(L))

\* a row with a cut-short literal next to a list with a repeated element
C9_Witness ==
    /\ Loaded
    /\ \E i \in DOMAIN source.rows :
          /\ {"top_5_similar", "top_10_similar"} \subseteq DOMAIN source.rows[i]
          /\ source.rows[i]["top_5_similar"] = PyStr(<<"[", "'", "a", "'", ",">>)
          /\ cache[1].rows[i]["top_5_similar"] = PySet({})
          /\ source.rows[i]["top_10_similar"]
                = PyStr(ListLiteral(<< <<"b">>, <<"b">> >>, <<",", " ">>))
          /\ cache[1].rows[i]["top_10_similar"] = PySet({<<"b">>})

\* C10: after a failed load every run ends without an exception, renders no
\* selectbox, no button and no view, and leaves the four session fields at
\* their initial values.
C10_FailedLoadIsInert ==
    LoadFailed =>
        /\ ~raised
        /\ ~category_box.rendered
        /\ ~subcategory_box.rendered
        /\ buttons = {}
        /\ ~view.built
        /\ session_state = InitialSession

\* a rerun took place after the load had failed on one bad cell
C10_Witness ==
    /\ LoadFailed
    /\ source.type = "csv"
    /\ event.kind = "rerun"
    /\ session_state = InitialSession

\* ------------------------------------------------ the reader of an export
ExportAlphabet == {"\n", " ", "_", "a", "b"}

\* bytes.decode("utf-8") on the ASCII bytes of the model
Decode(bytes) == [i \in DOMAIN bytes |-> CHOOSE ch \in ExportAlphabet : Ord(ch) = bytes[i]]

\* str.split(sep) with a one-character separator: empty pieces are kept, and
\* the empty string gives one empty piece
RECURSIVE SplitOn(_, _, _, _)
SplitOn(s, sep, cur, acc) ==
    IF s = <<>> THEN Append(acc, cur)
    ELSE IF Head(s) = sep THEN SplitOn(Tail(s), sep, <<>>, Append(acc, cur))
    ELSE SplitOn(Tail(s), sep, Append(cur, Head(s)), acc)

Entries(bytes) == SplitOn(Decode(bytes), "\n", <<>>, <<>>)

\* L lists exactly the keywords of K, each once, strictly ascending
IsSortedListOf(L, K) ==
    /\ Range(L) = K
    /\ \A i \in DOMAIN L : \A j \in DOMAIN L : i < j => StrLess(L[i], L[j])

NoBlankEntry(L) == \A i \in DOMAIN L : L[i] # <<>>

AllKeywords(index) == index.original_keywords \cup index.ai_keywords

\* what a reader of the export gets, as the claim states it
RoundTripAsStated(bytes, K) ==
    /\ IsSortedListOf(Entries(bytes), K)
    /\ NoBlankEntry(Entries(bytes))
    /\ K = {} => bytes = <<>>

\* C11 (as stated): decoding an export and splitting it on newline gives
\* sorted(K) for the keyword set K it was built from, without a blank entry,
\* and for the empty K an empty buffer that gives no entry at all.
C11_ExportRoundTrip ==
    view.built =>
        /\ RoundTripAsStated(view.original_csv, view.index.original_keywords)
        /\ RoundTripAsStated(view.all_csv, AllKeywords(view.index))

\* what a reader of the export gets from the code
RoundTrip(bytes, K) ==
    IF K = {} THEN bytes = <<>> /\ Entries(bytes) = << <<>> >>
    ELSE IsSortedListOf(Entries(bytes), K)

\* C11 (amended): for a non-empty K the entries are exactly sorted(K),
\* strictly ascending and without duplicates, a blank entry standing for the
\* empty keyword of K; for the empty K the buffer has no byte and splitting
\* its text on newline gives one empty entry.
C11_ExportRoundTripNonEmpty ==
    view.built =>
        /\ RoundTrip(view.original_csv, view.index.original_keywords)
        /\ RoundTrip(view.all_csv, AllKeywords(view.index))

\* an export of three keywords next to an export of two, and elsewhere an
\* empty one
C11_Witness ==
    /\ view.built
    /\ Cardinality(view.index.original_keywords) = 2
    /\ Cardinality(AllKeywords(view.index)) = 3
    /\ Len(Entries(view.all_csv)) = 3

\* the last row, in table order, of the view of (c, s) that holds keyword k
RowsWith(k, c, s) == {i \in MatchingRows(c, s) : k \in FormattedKeywords(i)}
LastRowWith(k, c, s) ==
    cache[1].rows[CHOOSE i \in RowsWith(k, c, s) : \A j \in RowsWith(k, c, s) : j <= i]

\* C14 (as stated): a run triggered by an interaction that leaves the stored
\* (category, subcategory) pair as it was (a keyword click, a download, a
\* rerun) does not build the keyword index.
C14_IndexBuiltOncePerChange ==
    [][ ( /\ event'.kind \in {"click", "stale_click", "download", "rerun"}
          /\ session_state'.selected_category = session_state.selected_category
          /\ session_state'.selected_subcategory = session_state.selected_subcategory )
        => ~view'.built ]_vars

\* C15: in a built index, the entry of every keyword is the last row of the
\* view that holds it, and a handled click stores that row as
\* selected_metadata.
C15_LastWriterWins ==
    view.built =>
        /\ \A k \in DOMAIN view.index.keyword_metadata :
              view.index.keyword_metadata[k]
              = LastRowWith(k, session_state.selected_category,
                            session_state.selected_subcategory)
        /\ view.handled # None =>
              session_state.selected_metadata
              = LastRowWith(view.handled, session_state.selected_category,
                            session_state.selected_subcategory)

\* a click on a keyword held by two different rows of the view stored the
\* later of the two
C15_Witness ==
    /\ view.built
    /\ view.handled # None
    /\ \E i \in RowsWith(view.handled, session_state.selected_category,
                         session_state.selected_subcategory) :
       \E j \in RowsWith(view.handled, session_state.selected_category,
                         session_state.selected_subcategory) :
          /\ i < j
          /\ cache[1].rows[i] # cache[1].rows[j]
          /\ session_state.selected_metadata = cache[1].rows[j]

\* C16: after every run, clicked_keyword is set exactly when
\* selected_metadata is non-empty; and when clicked_keyword = k is set, the
\* stored category and subcategory are non-empty and selected_metadata is a
\* row of the table with that category and subcategory whose formatted
\* Keywords contain k.
C16_BindingInvariant ==
    /\ (session_state.clicked_keyword # None) <=> (session_state.selected_metadata # EmptyDict)
    /\ session_state.clicked_keyword # None =>
          /\ session_state.selected_category \notin Unset
          /\ session_state.selected_subcategory \notin Unset
          /\ Loaded
          /\ \E i \in RowsWith(session_state.clicked_keyword,
                               session_state.selected_category,
                               session_state.selected_subcategory) :
                session_state.selected_metadata = cache[1].rows[i]

\* a keyword stays bound over a run that changes nothing, in a table that
\* also holds the keyword under another subcategory
C16_Witness ==
    /\ Loaded
    /\ event.kind \in {"download", "rerun"}
    /\ session_state.clicked_keyword # None
    /\ \E i \in DOMAIN cache[1].rows :
          /\ i \notin MatchingRows(session_state.selected_category,
                                   session_state.selected_subcategory)
          /\ session_state.clicked_keyword \in FormattedKeywords(i)

\* C17: in every run that builds an index, the keys of keyword_metadata are
\* exactly original_keywords, the rendered buttons are exactly those keys,
\* and the run does not end in a failed lookup.
C17_MetadataKeysAreKeywords ==
    view.built =>
          /\ ~raised
          /\ DOMAIN view.index.keyword_metadata = view.index.original_keywords
          /\ buttons = DOMAIN view.index.keyword_metadata

\* a click was looked up in an index of two keywords next to similar terms
\* that are no keywords
C17_Witness ==
    /\ view.built
    /\ view.handled # None
    /\ Cardinality(view.index.original_keywords) = 2
    /\ view.index.ai_keywords \ view.index.original_keywords # {}
    /\ session_state.selected_metadata = view.index.keyword_metadata[view.handled]

\* C18: a run triggered by a press on a keyword button leaves the stored
\* category and subcategory as they were.
C18_ClickFrame ==
    [][ event'.kind \in ClickKinds =>
          /\ session_state'.selected_category = session_state.selected_category
          /\ session_state'.selected_subcategory = session_state.selected_subcategory ]_vars

\* a click replaced one clicked keyword and its metadata by another
C18_Witness ==
    /\ event.kind = "click"
    /\ previous_state.clicked_keyword # None
    /\ session_state.clicked_keyword # previous_state.clicked_keyword
    /\ session_state.selected_metadata # previous_state.selected_metadata
    /\ session_state.selected_category = previous_state.selected_category
    /\ session_state.selected_subcategory = previous_state.selected_subcategory

\* the place of a column in the allow-list
Position(col) == CHOOSE n \in DOMAIN expected_columns : expected_columns[n] = col

\* the column names of the files that carry surrounding whitespace
PaddedNames == {" Keywords "}

\* C12: a file whose similarity cells can be converted loads, whichever
\* columns it holds; the columns of the table are the columns of the file
\* that are in the allow-list, in allow-list order, every row has exactly
\* these cells, and no column name is padded.
C12_ColumnsProjected ==
    ( /\ cache # <<>>
      /\ source.type = "csv"
      /\ \A i \in DOMAIN source.rows : \A col \in SimilarOf(source.rows[i]) :
            source.rows[i][col] \in ParsableCells )
    => /\ cache[1].type = "DataFrame"
       /\ Range(cache[1].columns) = Range(source.columns) \cap Range(expected_columns)
       /\ \A i \in DOMAIN cache[1].columns : \A j \in DOMAIN cache[1].columns :
             i < j => Position(cache[1].columns[i]) < Position(cache[1].columns[j])
       /\ \A i \in DOMAIN cache[1].rows : DOMAIN cache[1].rows[i] = Range(cache[1].columns)
       /\ Range(cache[1].columns) \cap PaddedNames = {}

\* a file that starts with top_5_similar, holds an unexpected and a padded
\* column and lacks Subcategory is loaded
C12_Witness ==
    /\ Loaded
    /\ source.columns # <<>>
    /\ source.columns[1] = "top_5_similar"
    /\ {"Extra", " Keywords "} \subseteq Range(source.columns)
    /\ "Subcategory" \notin Range(source.columns)
    /\ cache[1].columns = <<"DOI", "Category", "Keywords", "top_5_similar">>
    /\ raised

\* the argument of the n-th call of format_keyword
FormatArgument(n) == IF n = 1 THEN format_calls.input ELSE format_calls.outputs[n - 1]

\* out is text with every underscore replaced by a space and every other
\* character left in its place
UnderscoresToSpaces(text, out) ==
    /\ Len(out) = Len(text)
    /\ \A i \in DOMAIN text : out[i] = (IF text[i] = "_" THEN " " ELSE text[i])
    /\ "_" \notin Range(out)

\* C13: format_keyword gives a string token back with every underscore
\* replaced by a space, no underscore left and every other character in its
\* place; a second call gives the result of the first; an argument that is
\* no string comes back unchanged.
C13_FormatKeyword ==
    \A n \in DOMAIN format_calls.outputs :
        /\ FormatArgument(n).type = "str" =>
              /\ format_calls.outputs[n].type = "str"
              /\ UnderscoresToSpaces(FormatArgument(n).text, format_calls.outputs[n].text)
        /\ FormatArgument(n).type # "str" => format_calls.outputs[n] = FormatArgument(n)
        /\ n > 1 => format_calls.outputs[n] = format_calls.outputs[1]

\* "_a_" became " a " and stayed " a " in the second call
C13_Witness ==
    /\ format_calls.input = PyStr(<<"_", "a", "_">>)
    /\ format_calls.outputs = <<PyStr(<<" ", "a", " ">>), PyStr(<<" ", "a", " ">>)>>

====
